---------------------------- MODULE Spec2Model ----------------------------
(***************************************************************************)
(* Model of detector_tharunharirajan.py: the value classifiers, the        *)
(* maskers, detectAndRedact and the row loop of main.                      *)
(*                                                                         *)
(* A Python str is a sequence of one-character strings.  A JSON value is a *)
(* record [t, s, items]: t is its Python type ("str", "num", "null",       *)
(* "list"), s the characters of a str or the decimal digits of a number,   *)
(* items the elements (strs) of a list.  A dict is a sequence of fields    *)
(* [k, v] with pairwise different keys, in insertion order.                *)
(***************************************************************************)
EXTENDS Integers, Sequences, FiniteSets, TLC

VARIABLES record, step, locals, result, result2,
          inRows, outRows, rowIdx, pc,
          val, applied, out

vars == <<record, step, locals, result, result2, inRows, outRows, rowIdx, pc, val, applied, out>>

recordVars == <<record, step, locals, result, result2>>
mainVars == <<inRows, outRows, rowIdx, pc>>
pureVars == <<val, applied, out>>

-----------------------------------------------------------------------------
(* Bounds of the model.                                                    *)

\* largest number of fields of a record given to detectAndRedact
MaxFields == 3
\* largest number of rows of the input table
MaxRows == 2
\* largest number of pieces a generated string is concatenated from
MaxParts == 4

-----------------------------------------------------------------------------
(* Python str primitives.                                                  *)

DigitChars == {"0","1","2","3","4","5","6","7","8","9"}
UpperChars == <<"A","B","C","D","E","F","G","H","I","J","K","L","M","N","O","P","Q","R","S","T","U","V","W","X","Y","Z">>
LowerChars == <<"a","b","c","d","e","f","g","h","i","j","k","l","m","n","o","p","q","r","s","t","u","v","w","x","y","z">>
LetterChars == {UpperChars[i] : i \in 1..26} \cup {LowerChars[i] : i \in 1..26}

IsDigit(c) == c \in DigitChars
IsSpace(c) == c = " "
\* \w of the re module
IsWordChar(c) == c \in LetterChars \cup DigitChars \cup {"_"}

\* str.lower(), one character
LowerChar(c) ==
    IF \E i \in 1..26 : UpperChars[i] = c
    THEN LowerChars[CHOOSE i \in 1..26 : UpperChars[i] = c]
    ELSE c

\* str.lower()
ToLower(s) == [i \in 1..Len(s) |-> LowerChar(s[i])]

\* 'X' * n  (n <= 0 gives '')
Xs(n) == [i \in 1..n |-> "X"]

\* s[:n]
Take(s, n) == SubSeq(s, 1, IF n < Len(s) THEN n ELSE Len(s))
\* s[n:]
Drop(s, n) == SubSeq(s, n + 1, Len(s))
\* s[-n:]
LastN(s, n) == SubSeq(s, IF Len(s) > n THEN Len(s) - n + 1 ELSE 1, Len(s))

RECURSIVE LStrip(_)
LStrip(s) == IF s # <<>> /\ IsSpace(Head(s)) THEN LStrip(Tail(s)) ELSE s

RECURSIVE RStrip(_)
RStrip(s) == IF s # <<>> /\ IsSpace(s[Len(s)]) THEN RStrip(SubSeq(s, 1, Len(s) - 1)) ELSE s

\* str.strip()
Strip(s) == RStrip(LStrip(s))

\* c in s
HasChar(s, c) == \E i \in 1..Len(s) : s[i] = c

\* s.find(c) + 1: position of the first c, 0 when there is none
IndexOf(s, c) ==
    IF HasChar(s, c)
    THEN CHOOSE i \in 1..Len(s) : s[i] = c /\ \A j \in 1..(i - 1) : s[j] # c
    ELSE 0

\* s.count(c)
CountChar(s, c) == Cardinality({i \in 1..Len(s) : s[i] = c})

\* m in t  (substring)
Contains(t, m) == \E i \in 1..(Len(t) - Len(m) + 1) : SubSeq(t, i, i + Len(m) - 1) = m

\* re.sub(r'\D', '', s)
DigitsOf(s) == SelectSeq(s, IsDigit)

\* position of the first non-space character of s at or after i, Len(s)+1 when none
RECURSIVE SkipSpaces(_, _)
SkipSpaces(s, i) == IF i <= Len(s) /\ IsSpace(s[i]) THEN SkipSpaces(s, i + 1) ELSE i

\* re.split(r'\s+', s)
RECURSIVE ReSplitWs(_)
ReSplitWs(s) ==
    IF ~HasChar(s, " ")
    THEN <<s>>
    ELSE LET i == IndexOf(s, " ")
         IN  <<SubSeq(s, 1, i - 1)>> \o ReSplitWs(Drop(s, SkipSpaces(s, i) - 1))

\* s.split()
PySplit(s) == SelectSeq(ReSplitWs(s), LAMBDA p : p # <<>>)

\* s.split(c, 1) when c is in s: <<before the first c, after it>>
SplitFirst(s, c) == <<SubSeq(s, 1, IndexOf(s, c) - 1), Drop(s, IndexOf(s, c))>>

\* sep.join(parts)
RECURSIVE Join(_, _)
Join(parts, sep) ==
    IF parts = <<>> THEN <<>>
    ELSE IF Len(parts) = 1 THEN parts[1]
    ELSE parts[1] \o sep \o Join(Tail(parts), sep)

-----------------------------------------------------------------------------
(* The module constants, lines 5-12.                                       *)

phoneKeys == {<<"p","h","o","n","e">>, <<"c","o","n","t","a","c","t">>, <<"m","o","b","i","l","e">>, <<"a","l","t","_","p","h","o","n","e">>, <<"a","l","t","_","c","o","n","t","a","c","t">>}
aadharKeys == {<<"a","a","d","h","a","r">>, <<"a","a","d","h","a","a","r">>}
passportKeys == {<<"p","a","s","s","p","o","r","t">>}
upiKeys == {<<"u","p","i","_","i","d">>, <<"u","p","i">>, <<"v","p","a">>}
upiHandles ==
    {<<"u","p","i">>, <<"y","b","l">>, <<"i","b","l">>, <<"p","a","y","t","m">>, <<"o","k","h","d","f","c","b","a","n","k">>, <<"o","k","a","x","i","s">>, <<"o","k","s","b","i">>, <<"o","k","i","c","i","c","i">>,
     <<"a","x","i","s","b","a","n","k">>, <<"h","d","f","c","b","a","n","k">>, <<"s","b","i">>, <<"i","c","i","c","i">>, <<"f","b","l">>, <<"a","i","r","t","e","l">>, <<"a","p","l">>, <<"y","a","p","l">>, <<"k","b","l">>, <<"a","x","l">>}

\* the sentinel '[REDACTED_PII]'
Sentinel == <<"[","R","E","D","A","C","T","E","D","_","P","I","I","]">>

-----------------------------------------------------------------------------
(* Value classifiers, lines 14-37 and 88-97.                               *)

is10DigitPhone(v) == Len(DigitsOf(v)) = 10

isAadhar(v) == Len(DigitsOf(v)) = 12

\* re.fullmatch(r'[A-Za-z]\d{7,8}', val.strip())
isPassport(v) ==
    LET s == Strip(v)
    IN  /\ Len(s) \in {8, 9}
        /\ s[1] \in LetterChars
        /\ \A i \in 2..Len(s) : IsDigit(s[i])

\* re.fullmatch(r'[A-Za-z0-9.\-_]{2,}', user)
UpiUserOk(user) ==
    /\ Len(user) >= 2
    /\ \A i \in 1..Len(user) : user[i] \in LetterChars \cup DigitChars \cup {".", "-", "_"}

\* handle.split('.')[0].lower()
UpiBase(handle) ==
    ToLower(IF HasChar(handle, ".") THEN SplitFirst(handle, ".")[1] ELSE handle)

isUpi(v) ==
    LET s == Strip(v)
        parts == SplitFirst(s, "@")
    IN  IF ~HasChar(s, "@") THEN FALSE
        ELSE IF Len(parts) # 2 THEN FALSE
        ELSE IF ~UpiUserOk(parts[1]) THEN FALSE
        ELSE UpiBase(parts[2]) \in upiHandles

addressMarkers ==
    <<<<"s","t","r","e","e","t">>, <<"s","t",".">>, <<"r","o","a","d">>, <<"r","d">>, <<"l","a","n","e">>, <<"l","n">>, <<"a","v","e","n","u","e">>, <<"a","v","e">>, <<"b","l","o","c","k">>, <<"s","e","c","t","o","r">>,
      <<"n","e","a","r">>, <<"o","p","p">>, <<"a","p","a","r","t","m","e","n","t">>, <<"s","o","c","i","e","t","y">>, <<"f","l","o","o","r">>>>

\* re.search(r'\b\d{6}\b', t)
HasSixDigitWord(t) ==
    \E i \in 1..(Len(t) - 5) :
        /\ \A j \in i..(i + 5) : IsDigit(t[j])
        /\ (i = 1 \/ ~IsWordChar(t[i - 1]))
        /\ (i + 5 = Len(t) \/ ~IsWordChar(t[i + 6]))

\* looksLikeAddress on a str
looksLikeAddress(text) ==
    LET t == ToLower(text)
    IN  IF text = <<>> THEN FALSE
        ELSE IF \E m \in 1..Len(addressMarkers) : Contains(t, addressMarkers[m]) THEN TRUE
        ELSE IF HasSixDigitWord(t) THEN TRUE
        ELSE CountChar(t, ",") >= 2 /\ Len(t) >= 10

-----------------------------------------------------------------------------
(* Maskers, lines 39-86.                                                   *)

maskPhone(v) ==
    LET digits == DigitsOf(v)
    IN  IF Len(digits) # 10 THEN Sentinel
        ELSE Take(digits, 2) \o Xs(6) \o LastN(digits, 2)

maskAadhar(v) ==
    LET digits == DigitsOf(v)
    IN  IF Len(digits) # 12 THEN Sentinel
        ELSE <<"X","X","X","X"," ","X","X","X","X"," ">> \o LastN(digits, 4)

maskPassport(val0) ==
    LET v == Strip(val0)
    IN  IF ~isPassport(v) THEN Sentinel
        ELSE <<v[1]>> \o Xs(Len(v) - 1)

maskUpi(val0) ==
    LET v == Strip(val0)
        user == SplitFirst(v, "@")[1]
        handle == SplitFirst(v, "@")[2]
        maskedUser == IF Len(user) <= 4
                      THEN Take(user, 1) \o Xs(Len(user) - 1)
                      ELSE Take(user, 2) \o Xs(Len(user) - 4) \o LastN(user, 2)
    IN  IF ~HasChar(v, "@") THEN Sentinel
        ELSE maskedUser \o <<"@">> \o handle

\* one token of maskName: p[0] + 'X'*(len(p)-1)
MaskToken(p) == <<p[1]>> \o Xs(Len(p) - 1)

maskName(val0) ==
    LET parts == SelectSeq(ReSplitWs(Strip(val0)), LAMBDA p : p # <<>>)
        masked == [i \in 1..Len(parts) |-> MaskToken(parts[i])]
    IN  IF masked # <<>> THEN Join(masked, <<" ">>) ELSE val0

\* maskEmail with the len(local) <= 2 branch dropped
maskEmail_NoShortLocal(val0) ==
    LET v == Strip(val0)
        localPart == SplitFirst(v, "@")[1]
        domain == SplitFirst(v, "@")[2]
    IN  IF ~HasChar(v, "@") THEN Sentinel
        ELSE Take(localPart, 2) \o <<"X","X","X">> \o <<"@">> \o domain

maskEmail(val0) ==
    LET v == Strip(val0)
        localPart == SplitFirst(v, "@")[1]
        domain == SplitFirst(v, "@")[2]
        mlocal == IF Len(localPart) <= 2
                  THEN Take(localPart, 1) \o Xs(Len(localPart) - 1)
                  ELSE Take(localPart, 2) \o <<"X","X","X">>
    IN  IF ~HasChar(v, "@") THEN Sentinel
        ELSE mlocal \o <<"@">> \o domain

-----------------------------------------------------------------------------
(* JSON values and dicts.                                                  *)

Str(s) == [t |-> "str", s |-> s, items |-> <<>>]
Num(digits) == [t |-> "num", s |-> digits, items |-> <<>>]
Null == [t |-> "null", s |-> <<>>, items |-> <<>>]
List(items) == [t |-> "list", s |-> <<>>, items |-> items]

\* bool(value): the truth value Python gives a JSON value
Truthy(value) ==
    CASE value.t = "str" -> value.s # <<>>
      [] value.t = "num" -> value.s # <<"0">>
      [] value.t = "list" -> value.items # <<>>
      [] OTHER -> FALSE

\* json.dumps of a number or of a list of strs: '["a", "b"]'
jsonDumps(value) ==
    IF value.t = "num" THEN value.s
    ELSE <<"[">>
         \o Join([i \in 1..Len(value.items) |-> <<"\"">> \o value.items[i] \o <<"\"">>], <<","," ">>)
         \o <<"]">>

\* line 125: v = value if isinstance(value, str) else (json.dumps(value) if value is not None else '')
Serialise(value) ==
    IF value.t = "str" THEN value.s
    ELSE IF value.t # "null" THEN jsonDumps(value)
    ELSE <<>>

\* key in d
DictHas(d, key) == \E i \in 1..Len(d) : d[i].k = key

\* d[key], for a key of d
DictGet(d, key) == d[CHOOSE i \in 1..Len(d) : d[i].k = key].v

\* d[key] = value: in place for a key of d, appended otherwise
DictSet(d, key, value) ==
    IF DictHas(d, key)
    THEN [i \in 1..Len(d) |-> IF d[i].k = key THEN [k |-> key, v |-> value] ELSE d[i]]
    ELSE Append(d, [k |-> key, v |-> value])

\* list(d.keys())
Keys(d) == [i \in 1..Len(d) |-> d[i].k]

-----------------------------------------------------------------------------
(* detectAndRedact, lines 109-172.                                         *)

\* the locals after lines 111-121
InitialLocals(data) ==
    [hasFullName |-> FALSE, hasEmail |-> FALSE, hasAddress |-> FALSE,
     hasDeviceOrIp |-> FALSE, standaloneHit |-> FALSE, redacted |-> data]

\* a standalone hit that writes under the lower-cased key instead of the key
StandaloneHit_LowerKey(st, f, masked) ==
    [st EXCEPT !.standaloneHit = TRUE,
               !.redacted = DictSet(@, ToLower(f.k), Str(masked))]

\* standaloneHit = True; redacted[key] = mask(v)
StandaloneHit(st, f, masked) ==
    [st EXCEPT !.standaloneHit = TRUE,
               !.redacted = DictSet(@, f.k, Str(masked))]

\* one iteration of the loop of lines 123-154 (v is a str after line 125, so
\* isinstance(v, str) is true on lines 146 and 148)
FieldStep(st, f) ==
    LET k == ToLower(f.k)
        v == Serialise(f.v)
    IN  IF k \in phoneKeys /\ is10DigitPhone(v) THEN StandaloneHit(st, f, maskPhone(v))
        ELSE IF k \in aadharKeys /\ isAadhar(v) THEN StandaloneHit(st, f, maskAadhar(v))
        ELSE IF k \in passportKeys /\ isPassport(v) THEN StandaloneHit(st, f, maskPassport(v))
        ELSE IF k \in upiKeys /\ isUpi(v) THEN StandaloneHit(st, f, maskUpi(v))
        ELSE [st EXCEPT
                !.hasFullName = @ \/ (k = <<"n","a","m","e">> /\ Len(PySplit(v)) >= 2),
                !.hasEmail = @ \/ (k = <<"e","m","a","i","l">> /\ HasChar(v, "@")),
                !.hasAddress = @ \/ (k = <<"a","d","d","r","e","s","s">> /\ looksLikeAddress(v)),
                !.hasDeviceOrIp = @ \/ (/\ k \in {<<"i","p","_","a","d","d","r","e","s","s">>, <<"d","e","v","i","c","e","_","i","d">>}
                                        /\ v # <<>>
                                        /\ v # <<"0",".","0",".","0",".","0">>)]

\* the loop of lines 123-154 from field i on
RECURSIVE ScanFields(_, _, _)
ScanFields(st, data, i) ==
    IF i > Len(data) THEN st ELSE ScanFields(FieldStep(st, data[i]), data, i + 1)

BoolToInt(b) == IF b THEN 1 ELSE 0

\* line 156
comboHits(st) ==
    BoolToInt(st.hasFullName) + BoolToInt(st.hasEmail)
        + BoolToInt(st.hasAddress) + BoolToInt(st.hasDeviceOrIp)

\* the 2-of-4 rule with the threshold off by one
isComboPii_AnySignal(st) == comboHits(st) >= 1

\* line 157
isComboPii(st) == comboHits(st) >= 2

\* lines 160-161
RedactName(data, redacted) ==
    IF /\ DictHas(data, <<"n","a","m","e">>)
       /\ DictGet(data, <<"n","a","m","e">>).t = "str"
       /\ Len(PySplit(DictGet(data, <<"n","a","m","e">>).s)) >= 2
    THEN DictSet(redacted, <<"n","a","m","e">>, Str(maskName(DictGet(data, <<"n","a","m","e">>).s)))
    ELSE redacted

\* lines 162-163
RedactEmail(data, redacted) ==
    IF /\ DictHas(data, <<"e","m","a","i","l">>)
       /\ DictGet(data, <<"e","m","a","i","l">>).t = "str"
       /\ HasChar(DictGet(data, <<"e","m","a","i","l">>).s, "@")
    THEN DictSet(redacted, <<"e","m","a","i","l">>, Str(maskEmail(DictGet(data, <<"e","m","a","i","l">>).s)))
    ELSE redacted

\* looksLikeAddress(value) raises AttributeError: value is truthy (line 89 passes)
\* and has no lower() (line 91)
LooksLikeAddressRaises(value) == Truthy(value) /\ value.t # "str"

\* line 164 raises
RedactAddressRaises(data) ==
    DictHas(data, <<"a","d","d","r","e","s","s">>) /\ LooksLikeAddressRaises(DictGet(data, <<"a","d","d","r","e","s","s">>))

\* lines 164-165, when line 164 does not raise
RedactAddress(data, redacted) ==
    IF /\ DictHas(data, <<"a","d","d","r","e","s","s">>)
       /\ Truthy(DictGet(data, <<"a","d","d","r","e","s","s">>))
       /\ looksLikeAddress(DictGet(data, <<"a","d","d","r","e","s","s">>).s)
    THEN DictSet(redacted, <<"a","d","d","r","e","s","s">>, Str(Sentinel))
    ELSE redacted

\* lines 166-169, for key 'ip_address' or 'device_id'
RedactDevice(data, redacted, key) ==
    IF DictHas(data, key) /\ Truthy(DictGet(data, key))
    THEN DictSet(redacted, key, Str(Sentinel))
    ELSE redacted

\* lines 159-169
RedactCombo(data, redacted) ==
    RedactDevice(data,
        RedactDevice(data,
            RedactAddress(data, RedactEmail(data, RedactName(data, redacted))),
            <<"i","p","_","a","d","d","r","e","s","s">>),
        <<"d","e","v","i","c","e","_","i","d">>)

\* the locals of detectAndRedact(data) at line 156
LocalsOf(data) == ScanFields(InitialLocals(data), data, 1)

\* detectAndRedact(data): raised, or the pair (redacted, is_pii) it returns
detectAndRedact(data) ==
    LET st == LocalsOf(data)
    IN  IF isComboPii(st) /\ RedactAddressRaises(data)
        THEN [raised |-> TRUE, redacted |-> <<>>, is_pii |-> FALSE]
        ELSE [raised |-> FALSE,
              redacted |-> IF isComboPii(st) THEN RedactCombo(data, st.redacted)
                           ELSE st.redacted,
              is_pii |-> st.standaloneHit \/ isComboPii(st)]

-----------------------------------------------------------------------------
(* loadJsonSafe and the row loop of main, lines 99-107 and 187-199.        *)
(*                                                                         *)
(* json.loads is the standard library's.  The text of a Data_json cell is  *)
(* modelled by what json.loads makes of it: strict is the outcome on the   *)
(* text itself, fixed the outcome on the text with ' replaced by ".  An    *)
(* outcome is [ok, isDict, dict]: parsed or not, a mapping or another JSON *)
(* value, and the mapping.                                                 *)

ParseError == [ok |-> FALSE, isDict |-> FALSE, dict |-> <<>>]
ParsedDict(d) == [ok |-> TRUE, isDict |-> TRUE, dict |-> d]
ParsedOther == [ok |-> TRUE, isDict |-> FALSE, dict |-> <<>>]

\* loadJsonSafe(raw): the parsed value, {} after two failures
loadJsonSafe(raw) ==
    IF raw.strict.ok THEN raw.strict
    ELSE IF raw.fixed.ok THEN raw.fixed
    ELSE ParsedDict(<<>>)

\* lines 190-192: data = loadJsonSafe(rawJson); if not isinstance(data, dict): data = {}
RowData(row) ==
    LET data == loadJsonSafe(row.Data_json)
    IN  IF ~data.isDict THEN <<>> ELSE data.dict

\* str(bool(isPii))
PyBoolStr(b) == IF b THEN "True" ELSE "False"

\* lines 193-199: the row written for an input row whose record detectAndRedact returns
OutputRow(row, res) ==
    [record_id |-> row.record_id,
     redacted_data_json |-> res.redacted,
     is_pii |-> PyBoolStr(res.is_pii)]

-----------------------------------------------------------------------------
(* Inputs.                                                                 *)

Field(key, value) == [k |-> key, v |-> value]

\* the fields records are built from, in the order they appear in a record
FieldPool ==
    <<Field(<<"n","a","m","e">>, Str(<<"R","a","v","i"," ","K","u","m","a","r">>)),
      Field(<<"N","a","m","e">>, Str(<<"R","a","v","i"," ","K","u","m","a","r">>)),
      Field(<<"n","a","m","e">>, Str(<<"R","a","v","i">>)),
      Field(<<"n","a","m","e">>, List(<<<<"a">>, <<"b">>>>)),
      Field(<<"p","h","o","n","e">>, Str(<<"9","8","7","6","5","4","3","2","1","0">>)),
      Field(<<"P","h","o","n","e">>, Str(<<"9","8","7","6","5"," ","4","3","2","1","0">>)),
      Field(<<"p","h","o","n","e">>, Num(<<"9","8","7","6","5","4","3","2","1","0">>)),
      Field(<<"p","h","o","n","e">>, Str(<<>>)),
      Field(<<"e","m","a","i","l">>, Str(<<"r","a","v","i","@","x",".","c","o","m">>)),
      Field(<<"e","m","a","i","l">>, Str(<<"r","@","x",".","c","o">>)),
      Field(<<"e","m","a","i","l">>, Str(<<>>)),
      Field(<<"a","a","d","h","a","r">>, Str(<<"1","2","3","4"," ","5","6","7","8"," ","9","0","1","2">>)),
      Field(<<"a","d","d","r","e","s","s">>, Str(<<"1","2"," ","M","G"," ","R","o","a","d">>)),
      Field(<<"a","d","d","r","e","s","s">>, Num(<<"5","6","0","0","0","1">>)),
      Field(<<"a","d","d","r","e","s","s">>, List(<<>>)),
      Field(<<"p","a","s","s","p","o","r","t">>, Str(<<"A","1","2","3","4","5","6","7">>)),
      Field(<<"i","p","_","a","d","d","r","e","s","s">>, Str(<<"1",".","2",".","3",".","4">>)),
      Field(<<"i","p","_","a","d","d","r","e","s","s">>, Str(<<"0",".","0",".","0",".","0">>)),
      Field(<<"i","p","_","a","d","d","r","e","s","s">>, Null),
      Field(<<"u","p","i">>, Str(<<"s","o","m","e","o","n","e","@","y","b","l">>)),
      Field(<<"u","p","i">>, Str(<<"a","b","@","u","n","k","n","o","w","n">>)),
      Field(<<"d","e","v","i","c","e","_","i","d">>, Str(<<"D","1">>)),
      Field(<<"d","e","v","i","c","e","_","i","d">>, Num(<<"0">>)),
      Field(<<"c","i","t","y">>, Str(<<"P","u","n","e">>))>>

\* the strictly increasing index sequences into FieldPool of length n, no key twice
RECURSIVE IndexSeqs(_)
IndexSeqs(n) ==
    IF n = 0 THEN {<<>>}
    ELSE {Append(p[1], p[2]) :
            p \in {q \in IndexSeqs(n - 1) \X (1..Len(FieldPool)) :
                     /\ q[1] = <<>> \/ q[2] > q[1][Len(q[1])]
                     /\ \A i \in 1..Len(q[1]) : FieldPool[q[1][i]].k # FieldPool[q[2]].k}}

\* the records (dicts) given to detectAndRedact: at most MaxFields fields
Records ==
    UNION {{[i \in 1..Len(s) |-> FieldPool[s[i]]] : s \in IndexSeqs(n)} : n \in 0..MaxFields}

\* texts of a Data_json cell
RawTexts ==
    {[strict |-> ParsedDict(<<Field(<<"p","h","o","n","e">>, Str(<<"9","8","7","6","5","4","3","2","1","0">>))>>), fixed |-> ParseError],
     [strict |-> ParseError, fixed |-> ParsedDict(<<Field(<<"n","a","m","e">>, Str(<<"R","a","v","i"," ","K","u","m","a","r">>))>>)],
     [strict |-> ParseError, fixed |-> ParseError],
     [strict |-> ParsedOther, fixed |-> ParsedOther],
     [strict |-> ParsedDict(<<Field(<<"n","a","m","e">>, Str(<<"R","a","v","i"," ","K","u","m","a","r">>)),
                              Field(<<"e","m","a","i","l">>, Str(<<"r","a","v","i","@","x",".","c","o","m">>)),
                              Field(<<"a","d","d","r","e","s","s">>, Num(<<"5","6","0","0","0","1">>))>>),
      fixed |-> ParseError]}

\* rows of the input table
Rows == [record_id : {"r1", "r2"}, Data_json : RawTexts]

RECURSIVE SeqsUpTo(_, _)
SeqsUpTo(S, n) ==
    IF n = 0 THEN {<<>>}
    ELSE SeqsUpTo(S, n - 1)
         \cup {Append(s, x) : s \in {t \in SeqsUpTo(S, n - 1) : Len(t) = n - 1}, x \in S}

\* the pieces generated strings are concatenated from
Pieces == {<<"a","b">>, <<"a">>, <<"@">>, <<"y","b","l">>, <<".","x">>, <<" ">>}

RECURSIVE Concat(_)
Concat(parts) == IF parts = <<>> THEN <<>> ELSE Head(parts) \o Concat(Tail(parts))

\* strings given to the classifiers and maskers
SampleStrings ==
    {<<"9","8","7","6","5","4","3","2","1","0">>, <<"9","8","7","6","5"," ","4","3","2","1","0">>, <<"1","2","3">>, <<"1","2","3","4"," ","5","6","7","8"," ","9","0","1","2">>, <<"1","2","3","4">>, <<"A","1","2","3","4","5","6","7">>, <<"b","1","2","3","4","5","6","7","8">>,
     <<"A","1","2">>, <<"s","o","m","e","o","n","e","@","y","b","l">>, <<"a","b","@","y","b","l",".","x","@","y">>, <<"a","b","@","Y","B","L",".","c","o","m">>, <<"a","b","@","u","n","k","n","o","w","n">>, <<"a",".","b","-","_","c","@","p","a","y","t","m">>, <<"R","a","v","i"," ","K","u","m","a","r">>}

PureStrings == SampleStrings \cup {Concat(p) : p \in SeqsUpTo(Pieces, MaxParts)}

-----------------------------------------------------------------------------
(* The state machines.                                                     *)

NoResult == [raised |-> FALSE, redacted |-> <<>>, is_pii |-> FALSE]
NoOut == [b |-> FALSE, s |-> <<>>]

RecordIdle ==
    /\ record = <<>> /\ step = "input" /\ locals = InitialLocals(<<>>)
    /\ result = NoResult /\ result2 = NoResult

MainIdle == inRows = <<>> /\ outRows = <<>> /\ rowIdx = 0 /\ pc = "loop"

PureIdle == val = <<>> /\ applied = "none" /\ out = NoOut

(* detectAndRedact on one record, then on the record it returned.          *)

InitRecord ==
    /\ record \in Records
    /\ step = "input" /\ locals = InitialLocals(<<>>)
    /\ result = NoResult /\ result2 = NoResult
    /\ MainIdle /\ PureIdle

\* detectAndRedact(record): it returns or it raises
Classify ==
    /\ step = "input"
    /\ locals' = LocalsOf(record)
    /\ result' = detectAndRedact(record)
    /\ step' = IF detectAndRedact(record).raised THEN "raised" ELSE "returned"
    /\ UNCHANGED <<record, result2, mainVars, pureVars>>

\* detectAndRedact on the redacted record of the first call
Reclassify ==
    /\ step = "returned"
    /\ result2' = detectAndRedact(result.redacted)
    /\ step' = "rerun"
    /\ UNCHANGED <<record, locals, result, mainVars, pureVars>>

NextRecord == Classify \/ Reclassify

Spec == InitRecord /\ [][NextRecord]_vars

(* The row loop of main.                                                   *)

InitMain ==
    /\ inRows \in SeqsUpTo(Rows, MaxRows)
    /\ outRows = <<>> /\ rowIdx = 0 /\ pc = "loop"
    /\ RecordIdle /\ PureIdle

\* one iteration of the loop of line 187 that writes its row
RowWritten ==
    /\ pc = "loop" /\ rowIdx < Len(inRows)
    /\ ~detectAndRedact(RowData(inRows[rowIdx + 1])).raised
    /\ outRows' = Append(outRows,
                         OutputRow(inRows[rowIdx + 1],
                                   detectAndRedact(RowData(inRows[rowIdx + 1]))))
    /\ rowIdx' = rowIdx + 1
    /\ UNCHANGED <<inRows, pc, recordVars, pureVars>>

\* one iteration whose detectAndRedact raises: the exception leaves main
RowRaises ==
    /\ pc = "loop" /\ rowIdx < Len(inRows)
    /\ detectAndRedact(RowData(inRows[rowIdx + 1])).raised
    /\ pc' = "crashed"
    /\ UNCHANGED <<inRows, outRows, rowIdx, recordVars, pureVars>>

\* the reader is exhausted: line 201
Finish ==
    /\ pc = "loop" /\ rowIdx = Len(inRows)
    /\ pc' = "done"
    /\ UNCHANGED <<inRows, outRows, rowIdx, recordVars, pureVars>>

NextMain == RowWritten \/ RowRaises \/ Finish

SpecMain == InitMain /\ [][NextMain]_vars /\ WF_vars(NextMain)

(* One call of a classifier or of a masker on one string.                  *)

InitPure ==
    /\ val \in PureStrings
    /\ applied = "none" /\ out = NoOut
    /\ RecordIdle /\ MainIdle

CallIsUpi ==
    /\ applied = "none"
    /\ applied' = "isUpi"
    /\ out' = [b |-> isUpi(val), s |-> <<>>]
    /\ UNCHANGED <<val, recordVars, mainVars>>

CallMaskPhone ==
    /\ applied = "none"
    /\ applied' = "maskPhone"
    /\ out' = [b |-> is10DigitPhone(val), s |-> maskPhone(val)]
    /\ UNCHANGED <<val, recordVars, mainVars>>

CallMaskAadhar ==
    /\ applied = "none"
    /\ applied' = "maskAadhar"
    /\ out' = [b |-> isAadhar(val), s |-> maskAadhar(val)]
    /\ UNCHANGED <<val, recordVars, mainVars>>

CallMaskPassport ==
    /\ applied = "none"
    /\ applied' = "maskPassport"
    /\ out' = [b |-> isPassport(val), s |-> maskPassport(val)]
    /\ UNCHANGED <<val, recordVars, mainVars>>

CallMaskUpi ==
    /\ applied = "none"
    /\ applied' = "maskUpi"
    /\ out' = [b |-> isUpi(val), s |-> maskUpi(val)]
    /\ UNCHANGED <<val, recordVars, mainVars>>

NextPure == CallIsUpi \/ CallMaskPhone \/ CallMaskAadhar \/ CallMaskPassport \/ CallMaskUpi

SpecPure == InitPure /\ [][NextPure]_vars

-----------------------------------------------------------------------------
(* Vocabulary of the claims about detectAndRedact.                         *)

standaloneKeys == phoneKeys \cup aadharKeys \cup passportKeys \cup upiKeys

\* the first call has returned
Returned == step \in {"returned", "rerun"}

\* field f is a standalone hit: its lower-cased name is an alias of a role and its
\* value, as matched, passes that role's classifier
IsStandaloneHit(f) ==
    \/ ToLower(f.k) \in phoneKeys /\ is10DigitPhone(Serialise(f.v))
    \/ ToLower(f.k) \in aadharKeys /\ isAadhar(Serialise(f.v))
    \/ ToLower(f.k) \in passportKeys /\ isPassport(Serialise(f.v))
    \/ ToLower(f.k) \in upiKeys /\ isUpi(Serialise(f.v))

\* the combinational signal field f belongs to by its name, "none" for other fields
SignalOf(f) ==
    CASE ToLower(f.k) = <<"n","a","m","e">> -> "FullName"
      [] ToLower(f.k) = <<"e","m","a","i","l">> -> "Email"
      [] ToLower(f.k) = <<"a","d","d","r","e","s","s">> -> "Address"
      [] ToLower(f.k) \in {<<"i","p","_","a","d","d","r","e","s","s">>, <<"d","e","v","i","c","e","_","i","d">>} -> "DeviceOrIP"
      [] OTHER -> "none"

\* the activation predicate of f's signal on the characters s
ActivatedBy(f, s) ==
    CASE SignalOf(f) = "FullName" -> Len(PySplit(s)) >= 2
      [] SignalOf(f) = "Email" -> HasChar(s, "@")
      [] SignalOf(f) = "Address" -> looksLikeAddress(s)
      [] SignalOf(f) = "DeviceOrIP" -> s # <<>> /\ s # <<"0",".","0",".","0",".","0">>
      [] OTHER -> FALSE

\* f activates its signal, on its value as matched
IsActiveComboField(f) == ActivatedBy(f, Serialise(f.v))

\* the signals some field of rec activates
ActiveSignals(rec) == {SignalOf(rec[i]) : i \in {j \in 1..Len(rec) : IsActiveComboField(rec[j])}}

\* the masked form the combinational pass gives field f
ComboMask(f) ==
    CASE SignalOf(f) = "FullName" -> maskName(Serialise(f.v))
      [] SignalOf(f) = "Email" -> maskEmail(Serialise(f.v))
      [] OTHER -> Sentinel

\* the flag detectAndRedact keeps for signal sig
SignalFlag(st, sig) ==
    CASE sig = "FullName" -> st.hasFullName
      [] sig = "Email" -> st.hasEmail
      [] sig = "Address" -> st.hasAddress
      [] OTHER -> st.hasDeviceOrIp

\* a value that is present but empty or not a string
EmptyOrNonString(value) == value.t # "str" \/ value.s = <<>>

-----------------------------------------------------------------------------
(* C1: when the 2-of-4 rule triggers, every field named name, email,       *)
(* address, ip_address or device_id in any spelling of the letters' case,  *)
(* whose string value activates its signal, is masked in the returned      *)
(* record: name by maskName, email by maskEmail, the others by the         *)
(* sentinel.                                                               *)
C1_ActiveComboFieldsMasked ==
    (Returned /\ comboHits(locals) >= 2) =>
        \A i \in 1..Len(record) :
            (record[i].v.t = "str" /\ IsActiveComboField(record[i])) =>
                /\ DictHas(result.redacted, record[i].k)
                /\ DictGet(result.redacted, record[i].k) = Str(ComboMask(record[i]))

(* C2: detectAndRedact never raises: every call returns a pair.            *)
C2_NeverRaises == step # "raised"

(* C3: a value that is empty or not a string is never a standalone hit     *)
(* (the field is left as it is and the standalone flag needs another       *)
(* field) and never activates a combinational signal (each signal that is  *)
(* set was activated by a non-empty string).                               *)
C3_EmptyOrNonStringInactive ==
    step # "input" =>
        /\ \A i \in 1..Len(record) :
              (EmptyOrNonString(record[i].v) /\ ToLower(record[i].k) \in standaloneKeys) =>
                  locals.redacted[i].v = record[i].v
        /\ locals.standaloneHit =>
              \E i \in 1..Len(record) :
                  ~EmptyOrNonString(record[i].v) /\ IsStandaloneHit(record[i])
        /\ \A sig \in {"FullName", "Email", "Address", "DeviceOrIP"} :
              SignalFlag(locals, sig) =>
                  \E i \in 1..Len(record) :
                      /\ SignalOf(record[i]) = sig
                      /\ ~EmptyOrNonString(record[i].v)
                      /\ IsActiveComboField(record[i])

(* C4: the returned flag is true exactly when some field is a standalone   *)
(* hit or at least 2 distinct signals are active; otherwise the record is  *)
(* returned unchanged.                                                     *)
C4_IsPiiIffHitOrTwoSignals ==
    Returned =>
        /\ result.is_pii <=>
              \/ \E i \in 1..Len(record) : IsStandaloneHit(record[i])
              \/ Cardinality(ActiveSignals(record)) >= 2
        /\ ~result.is_pii => result.redacted = record

\* a record with one active signal and no standalone hit has been classified
C4_Witness ==
    /\ Returned
    /\ Cardinality(ActiveSignals(record)) = 1
    /\ \A i \in 1..Len(record) : ~IsStandaloneHit(record[i])
    /\ ~result.is_pii

(* C5: the returned record has the keys of the input, in the same order.   *)
C5_KeysPreserved == Returned => Keys(result.redacted) = Keys(record)

\* a record with two keys that differ only in case has been redacted
C5_Witness ==
    /\ Returned
    /\ result.redacted # record
    /\ \E i, j \in 1..Len(record) :
          i # j /\ ToLower(record[i].k) = ToLower(record[j].k)

(* C6: detectAndRedact on the record it returned returns that record.      *)
C6_Idempotent ==
    step = "rerun" => (~result2.raised /\ result2.redacted = result.redacted)

\* the second call has run on a record both passes of the first call masked
C6_Witness ==
    /\ step = "rerun"
    /\ locals.standaloneHit
    /\ comboHits(locals) >= 2
    /\ \E i \in 1..Len(record) :
          SignalOf(record[i]) = "Email" /\ result.redacted[i].v # record[i].v

(* C10: a field's value in the returned record differs from its input      *)
(* value only if the field is a standalone hit, or the 2-of-4 rule         *)
(* triggered and the field activates its signal; a placeholder "0.0.0.0"   *)
(* under ip_address or device_id is returned as it is.                     *)
C10_OnlyHitsChange ==
    Returned =>
        \A i \in 1..Len(record) :
            result.redacted[i].v # record[i].v =>
                \/ IsStandaloneHit(record[i])
                \/ comboHits(locals) >= 2 /\ IsActiveComboField(record[i])

-----------------------------------------------------------------------------
(* C7: isUpi(v) is true exactly when v (the value as line 27 strips it)   *)
(* has one "@", the part before it is 2 or more of [A-Za-z0-9._-], and the *)
(* part after it, lower-cased and cut at its first ".", is in the          *)
(* allow-list; a value with two or more "@" is rejected.                   *)
C7_IsUpiExactlyOneAt ==
    applied = "isUpi" =>
        LET v == Strip(val)
            before == SplitFirst(v, "@")[1]
            after == SplitFirst(v, "@")[2]
        IN  out.b <=>
                /\ CountChar(v, "@") = 1
                /\ Len(before) >= 2
                /\ \A i \in 1..Len(before) :
                      before[i] \in LetterChars \cup DigitChars \cup {".", "-", "_"}
                /\ UpiBase(after) \in upiHandles

(* C8: each standalone masker returns the sentinel for every input that    *)
(* fails its own classifier.                                               *)
C8_InvalidInputGivesSentinel ==
    (applied \in {"maskPhone", "maskAadhar", "maskPassport", "maskUpi"} /\ ~out.b) =>
        out.s = Sentinel

-----------------------------------------------------------------------------
(* C9: when main has ended, one row has been written per input row, in     *)
(* input order, with the row's record_id and "True" or "False"; a row      *)
(* whose JSON is malformed or no mapping has an empty mapping and "False". *)
C9_OneOutputRowPerInputRow ==
    pc # "loop" =>
        /\ Len(outRows) = Len(inRows)
        /\ \A i \in 1..Len(outRows) :
              /\ outRows[i].record_id = inRows[i].record_id
              /\ outRows[i].is_pii \in {"True", "False"}
              /\ (~loadJsonSafe(inRows[i].Data_json).isDict
                  \/ (~inRows[i].Data_json.strict.ok /\ ~inRows[i].Data_json.fixed.ok)) =>
                     (outRows[i].redacted_data_json = <<>> /\ outRows[i].is_pii = "False")

=============================================================================
